---- MODULE Spec2Model ----
(***************************************************************************)
(* Model of backend/src/agents/todo_agent.py: the TodoAgent object, its    *)
(* message router process_message and the helpers it dispatches to.        *)
(*                                                                         *)
(* Python str values are TLA+ strings (TLC evaluates Len, SubSeq and \o on *)
(* them), so `in`, startswith, lower, strip and split are computed on the  *)
(* characters, as the interpreter does.                                    *)
(***************************************************************************)
EXTENDS Integers, Sequences, FiniteSets, TLC

(***************************************************************************)
(* Bounds of the model.                                                    *)
(***************************************************************************)
\* longest message, in vocabulary words, given to process_message
MaxWords == 4
\* request slots that may run process_message concurrently (SpecConc)
NumReq == 2

(***************************************************************************)
(* Python values.                                                          *)
(***************************************************************************)
\* Python's None (not a str): a value no message, key or template equals.
None == "<None>"

\* bool(x) for an Optional[str]: None and "" are falsy.
Bool(x) == x # None /\ x # ""

\* isinstance(x, str) and len(x) > 0
IsNonEmptyStr(x) == x # None /\ x # ""

(***************************************************************************)
(* str methods.                                                            *)
(***************************************************************************)
UpperChars == "ABCDEFGHIJKLMNOPQRSTUVWXYZÉ"
LowerChars == "abcdefghijklmnopqrstuvwxyzé"

\* one character of str.lower()
LowerChar(c) ==
    IF \E i \in 1..Len(UpperChars) : SubSeq(UpperChars, i, i) = c
    THEN LET i == CHOOSE i \in 1..Len(UpperChars) : SubSeq(UpperChars, i, i) = c
         IN  SubSeq(LowerChars, i, i)
    ELSE c

RECURSIVE Lower(_)
\* str.lower()
Lower(s) == IF s = "" THEN "" ELSE LowerChar(SubSeq(s, 1, 1)) \o Lower(SubSeq(s, 2, Len(s)))

\* str.isspace() of one character
IsSpace(c) == c \in {" ", "\t", "\n"}

\* str.strip(): leading and trailing whitespace removed
Strip(s) ==
    LET idx == {i \in 1..Len(s) : ~IsSpace(SubSeq(s, i, i))}
    IN  IF idx = {} THEN ""
        ELSE LET lo == CHOOSE i \in idx : \A j \in idx : i <= j
                 hi == CHOOSE i \in idx : \A j \in idx : j <= i
             IN  SubSeq(s, lo, hi)

\* k in s (substring containment)
In(k, s) == \E i \in 1..(Len(s) - Len(k) + 1) : SubSeq(s, i, i + Len(k) - 1) = k

\* s.startswith(p)
StartsWith(s, p) == Len(p) <= Len(s) /\ SubSeq(s, 1, Len(p)) = p

\* len(s.split()): the number of maximal runs of non-whitespace characters
SplitLen(s) ==
    Cardinality({i \in 1..Len(s) :
        /\ ~IsSpace(SubSeq(s, i, i))
        /\ (i = 1 \/ IsSpace(SubSeq(s, i - 1, i - 1)))})

\* any(word in s for word in words), words a sequence of strings
AnyIn(words, s) == \E i \in 1..Len(words) : In(words[i], s)

(***************************************************************************)
(* Fixed response strings.                                                 *)
(***************************************************************************)
CreateAck == "I can help you create a todo! In a full implementation, I would create a todo based on your request."
ListAck == "I can help you view your todos! In a full implementation, I would show your todo list."
CompleteAck == "I can help you mark a todo as complete! In a full implementation, I would update the todo status."
DeleteAck == "I can help you delete a todo! In a full implementation, I would remove the todo."
UnrecognizedAck == "I can help you manage your todos! Try saying things like 'Create a todo to buy groceries' or 'Show me my todos'."

\* the string process_message returns on its last line
DefaultOfflineHelp == "I can help you manage your todos! Try saying things like:\n- 'Create a todo to buy groceries'\n- 'Show me my todos'\n- 'Mark todo abc-123 as complete'\n- 'Delete todo abc-123'"

GreetingReply == "Hello! I'm your todo assistant. I can help you manage your tasks and have a chat too! How can I help you today?"
HowAreYouReply == "I'm doing great, thanks for asking! I'm here and ready to help you with your todos or just chat. What's on your mind?"
ThanksReply == "You're welcome! I'm always here to help with your todos or chat. Is there anything else I can assist you with?"
GoodbyeReply == "Goodbye! Don't forget to check your todos. Come back anytime!"
\* (the emoji of the source text, here and in JokeReply, are left out and
\* its bullet characters are written as hyphens)
HelpReply == "I'm your friendly todo assistant! I can help you:\n\n**Todo Management:**\n- Create new todos: \"Create a todo to buy groceries\"\n- View your todos: \"Show me my todos\"\n- Mark complete: \"Mark todo abc-123 as complete\"\n- Delete todos: \"Delete todo abc-123\"\n\n**Chat with me:**\n- Ask questions, tell jokes, or just say hi!\n- I can talk about various topics\n\nWhat would you like to do?"
IdentityReply == "I'm your personal todo assistant and chat companion! I help you manage your tasks while also being here for friendly conversation. I love helping people stay organized and productive!"
WeatherReply == "I don't have access to current weather or time data, but I can definitely help you manage your todos and chat about other things! What's on your agenda today?"
JokeReply == "Why did the todo list go to therapy? It had too many unresolved issues! What else can I help you with?"

\* the pool random.choice draws from
responses ==
    { "That's interesting! Tell me more about that.",
      "I love chatting! What's been happening with you?",
      "Sounds good! How else can I help you today?",
      "I'm all ears! What's next on your mind?",
      "Great to hear from you! What else is going on?",
      "I enjoy our conversations! What's new with you?" }

OfflineCreate == "I'd love to create a todo for you, but I'm currently in offline mode. Please try again when the AI service is available."
OfflineShow == "I'd love to show you your todos, but I'm currently in offline mode. Please try again when the AI service is available."
OfflineUpdate == "I'd love to update your todos, but I'm currently in offline mode. Please try again when the AI service is available."
OfflineDelete == "I'd love to delete that todo, but I'm currently in offline mode. Please try again when the AI service is available."
OfflineGeneric == "I'm currently in offline mode due to connectivity issues. I can still help with basic todo management when the AI service is back online. What would you like to chat about in the meantime?"

TimeoutApology == "The request timed out. Please check your internet connection and try again. I can still help you manage your todos if you'd like!"
NetworkApology == "I'm currently unable to connect to my AI services due to a network issue. I can help you manage your todos directly though. What would you like to do?"
UnexpectedApology == "I'm experiencing an issue connecting to my AI services. What would you like to do with your todos?"

\* f"API Error {e.response.status_code}: I'm having trouble ..."
HTTPApology(status_code) ==
    "API Error " \o ToString(status_code) \o ": I'm having trouble connecting to my AI services. What would you like to do with your todos?"

(***************************************************************************)
(* Intent classification.                                                  *)
(***************************************************************************)
todo_keywords ==
    << "create", "add", "new", "make", "todo", "task", "delete", "remove",
       "complete", "finish", "done", "mark", "show", "list", "view", "get" >>

\* IsTodoCommand testing the todo/task nouns only
IsTodoCommandNounsOnly(message_lower) == AnyIn(<<"todo", "task">>, message_lower)

\* _is_todo_command: the first keyword found returns True
IsTodoCommand(message_lower) == AnyIn(todo_keywords, message_lower)

general_keywords ==
    << "hi", "hello", "hey", "greetings", "good morning", "good afternoon",
       "good evening", "how are you", "what's up", "howdy", "sup",
       "thanks", "thank you", "bye", "goodbye", "see you", "later",
       "how can you help", "what can you do", "help", "who are you",
       "what are you", "tell me about yourself", "introduce yourself",
       "nice to meet you", "pleased to meet you", "how's it going",
       "what's new", "how have you been", "long time no see",
       "what do you think", "in your opinion", "do you like", "favorite",
       "hobby", "interest", "passion", "dream", "goal", "wish",
       "weather", "time", "date", "day", "today", "tomorrow",
       "yesterday", "weekend", "vacation", "holiday", "birthday",
       "celebration", "party", "fun", "joke", "laugh", "smile",
       "happy", "sad", "angry", "excited", "bored", "tired",
       "hungry", "thirsty", "sleepy", "awake", "dream", "nightmare",
       "music", "song", "movie", "film", "book", "game", "sport",
       "food", "drink", "color", "animal", "place", "country",
       "city", "travel", "adventure", "story", "memory", "experience" >>

question_words ==
    << "who ", "what ", "where ", "when ", "why ", "how ", "which ", "whose " >>

\* the token count up to which a message counts as "very short"
ShortMessageTokens == 3

\* IsGeneralConversation with the interrogative matched anywhere
IsGeneralConversationUnanchored(message_lower) ==
    \/ AnyIn(general_keywords, message_lower)
    \/ \E i \in 1..Len(question_words) : In(Strip(question_words[i]), message_lower)
    \/ SplitLen(message_lower) <= ShortMessageTokens

\* IsGeneralConversation with the short-message rule asking for a token
IsGeneralConversationNonEmpty(message_lower) ==
    \/ AnyIn(general_keywords, message_lower)
    \/ \E i \in 1..Len(question_words) :
          \/ StartsWith(message_lower, question_words[i])
          \/ In(" " \o question_words[i], message_lower)
    \/ (SplitLen(message_lower) >= 1 /\ SplitLen(message_lower) <= ShortMessageTokens)

\* _is_general_conversation
IsGeneralConversation(message_lower) ==
    \/ AnyIn(general_keywords, message_lower)
    \/ \E i \in 1..Len(question_words) :
          \/ StartsWith(message_lower, question_words[i])
          \/ In(" " \o question_words[i], message_lower)
    \/ SplitLen(message_lower) <= ShortMessageTokens

(***************************************************************************)
(* Handlers.                                                               *)
(***************************************************************************)
\* HandleTodoCommand with the delete branch tested before the complete branch
HandleTodoCommandDeleteFirst(user_id_str, message_lower) ==
    IF AnyIn(<<"create", "add", "new", "make">>, message_lower)
          /\ AnyIn(<<"todo", "task">>, message_lower)
    THEN CreateAck
    ELSE IF AnyIn(<<"show", "list", "view", "get">>, message_lower)
          /\ AnyIn(<<"todo", "task", "todos", "tasks">>, message_lower)
    THEN ListAck
    ELSE IF AnyIn(<<"delete", "remove">>, message_lower)
          /\ AnyIn(<<"todo", "task">>, message_lower)
    THEN DeleteAck
    ELSE IF AnyIn(<<"complete", "finish", "done", "mark">>, message_lower)
          /\ AnyIn(<<"todo", "task">>, message_lower)
    THEN CompleteAck
    ELSE UnrecognizedAck

\* _handle_todo_command
HandleTodoCommand(user_id_str, message_lower) ==
    IF AnyIn(<<"create", "add", "new", "make">>, message_lower)
          /\ AnyIn(<<"todo", "task">>, message_lower)
    THEN CreateAck
    ELSE IF AnyIn(<<"show", "list", "view", "get">>, message_lower)
          /\ AnyIn(<<"todo", "task", "todos", "tasks">>, message_lower)
    THEN ListAck
    ELSE IF AnyIn(<<"complete", "finish", "done", "mark">>, message_lower)
          /\ AnyIn(<<"todo", "task">>, message_lower)
    THEN CompleteAck
    ELSE IF AnyIn(<<"delete", "remove">>, message_lower)
          /\ AnyIn(<<"todo", "task">>, message_lower)
    THEN DeleteAck
    ELSE UnrecognizedAck

\* _handle_general_conversation: the set of strings it may return (one, or
\* any member of the pool where it calls random.choice)
HandleGeneralConversation(message) ==
    LET message_lower == Strip(Lower(message))
    IN  IF AnyIn(<<"hi", "hello", "hey", "greetings", "howdy", "sup">>, message_lower)
        THEN {GreetingReply}
        ELSE IF In("how are you", message_lower) \/ In("how's it going", message_lower)
        THEN {HowAreYouReply}
        ELSE IF AnyIn(<<"thanks", "thank you", "thx", "ty">>, message_lower)
        THEN {ThanksReply}
        ELSE IF AnyIn(<<"bye", "goodbye", "see you", "later", "cya">>, message_lower)
        THEN {GoodbyeReply}
        ELSE IF AnyIn(<<"help", "what can you do", "how can you help">>, message_lower)
        THEN {HelpReply}
        ELSE IF AnyIn(<<"who are you", "what are you", "introduce yourself",
                        "tell me about yourself">>, message_lower)
        THEN {IdentityReply}
        ELSE IF AnyIn(<<"weather", "time", "date", "day">>, message_lower)
        THEN {WeatherReply}
        ELSE IF AnyIn(<<"joke", "funny", "laugh">>, message_lower)
        THEN {JokeReply}
        ELSE responses

\* _handle_offline_fallback
HandleOfflineFallback(message) ==
    LET message_lower == Strip(Lower(message))
    IN  IF AnyIn(<<"create", "add", "new">>, message_lower) /\ In("todo", message_lower)
        THEN OfflineCreate
        ELSE IF AnyIn(<<"show", "list", "view", "get">>, message_lower)
        THEN OfflineShow
        ELSE IF AnyIn(<<"complete", "finish", "done", "mark">>, message_lower)
        THEN OfflineUpdate
        ELSE IF AnyIn(<<"delete", "remove">>, message_lower)
        THEN OfflineDelete
        ELSE OfflineGeneric

(***************************************************************************)
(* The AI backend: what one chat-completion call can come to.              *)
(***************************************************************************)
\* HTTP status codes of a non-2xx answer
StatusCodes == {429, 500}

\* message.content of a well-formed answer: text, the empty string, or None
Contents == {"Sure, here is how to add a todo.", "", None}

\* Outcomes of client.chat.completions.create(...) followed by
\* response.choices[0].message.content:
\*   ok         a response with one choice, holding content
\*   malformed  a response whose choices list is empty (choices[0] raises)
\*   timeout    APITimeoutError          network   APIConnectionError
\*   http       APIStatusError(status)   unexpected  any other Exception
Outcomes ==
    [kind : {"ok"}, content : Contents, status : {200}]
      \cup [kind : {"malformed"}, content : {None}, status : {200}]
      \cup [kind : {"timeout", "network", "unexpected"}, content : {None}, status : {0}]
      \cup [kind : {"http"}, content : {None}, status : StatusCodes]

FailureKinds == {"malformed", "timeout", "network", "http", "unexpected"}

\* ExceptException narrowed to the transport errors of the client library
ExceptTransportErrors(kind) == kind \in {"timeout", "network", "http"}

\* the exception classes the clause `except Exception` of _process_with_ai
\* catches: every failure above is raised as a subclass of Exception
ExceptException(kind) == kind \in {"malformed", "timeout", "network", "http", "unexpected"}

\* _call_openrouter_api: the dict it returns for each outcome of its own
\* httpx call (its except clauses, in order)
CallOpenrouterApi(outcome) ==
    LET reply(c) == [choices |-> << [message |-> [content |-> c]] >>]
    IN  CASE outcome.kind = "ok"        -> reply(outcome.content)
          [] outcome.kind = "timeout"   -> reply(TimeoutApology)
          [] outcome.kind = "network"   -> reply(NetworkApology)
          [] outcome.kind = "http"      -> reply(HTTPApology(outcome.status))
          [] OTHER                      -> reply(UnexpectedApology)

(***************************************************************************)
(* State.                                                                  *)
(***************************************************************************)
VARIABLES
    agent,   \* the fields of the one TodoAgent object
    req      \* per request slot: the process_message call in progress

vars == <<agent, req>>

Reqs == 1..NumReq

\* the user_id the caller of slot r passes
UserOf(r) == "user-" \o ToString(r)

\* what os.getenv("OPENROUTER_API_KEY") may return
Credentials == {None, "", "sk-or-key"}

\* NewAgent with offline_mode = (key is None)
NewAgentKeyIsNone(key) ==
    [ openrouter_api_key |-> key,
      offline_mode       |-> (key = None),
      current_user_id    |-> None,
      api_key            |-> key,
      model              |-> "openai/gpt-4o-mini",
      base_url           |-> "https://openrouter.ai/api/v1",
      client             |-> (key # None) ]

\* __init__
NewAgent(key) ==
    [ openrouter_api_key |-> key,
      offline_mode       |-> ~Bool(key),
      current_user_id    |-> None,
      api_key            |-> key,
      model              |-> "openai/gpt-4o-mini",
      base_url           |-> "https://openrouter.ai/api/v1",
      client             |-> Bool(key) ]

\* a free slot; while a call runs: pc is where it stands ("ai_call": waiting
\* for the AI backend, "returned", "raised"), intent the branch of
\* process_message it took, result the value returned, ai and status the
\* outcome of its AI backend call, calls the AI backend calls it has made
Idle == [pc |-> "idle", user_id |-> None, message |-> "", intent |-> "none",
         result |-> None, ai |-> "none", status |-> 0, calls |-> 0]

Init ==
    /\ \E key \in Credentials : agent = NewAgent(key)
    /\ req = [r \in Reqs |-> Idle]

(***************************************************************************)
(* Operations.                                                             *)
(***************************************************************************)
\* return value: the call of record rec ends, returning value
Return(rec, value) == [rec EXCEPT !.pc = "returned", !.result = value]

\* _process_with_ai up to the call of the AI backend: in offline mode it
\* returns the offline fallback, else it calls the backend and waits
ProcessWithAIBegin(offline_mode, rec) ==
    IF offline_mode
    THEN {Return(rec, HandleOfflineFallback(rec.message))}
    ELSE {[rec EXCEPT !.pc = "ai_call", !.calls = @ + 1]}

\* Route with the general-conversation test made before the todo test
RouteGeneralFirst(offline_mode, rec) ==
    LET message_lower == Strip(Lower(rec.message))
        as(intent) == [rec EXCEPT !.intent = intent]
    IN  IF IsGeneralConversation(message_lower)
        THEN IF ~offline_mode
             THEN ProcessWithAIBegin(offline_mode, as("GeneralConversation"))
             ELSE {Return(as("GeneralConversation"), reply) :
                      reply \in HandleGeneralConversation(rec.message)}
        ELSE IF IsTodoCommand(message_lower)
        THEN {Return(as("TodoCommand"), HandleTodoCommand(rec.user_id, message_lower))}
        ELSE IF ~offline_mode
        THEN ProcessWithAIBegin(offline_mode, as("Other"))
        ELSE {Return(as("Other"), DefaultOfflineHelp)}

\* Route with the offline default taken from _handle_offline_fallback
RouteOtherOfflineFallback(offline_mode, rec) ==
    LET message_lower == Strip(Lower(rec.message))
        as(intent) == [rec EXCEPT !.intent = intent]
    IN  IF IsTodoCommand(message_lower)
        THEN {Return(as("TodoCommand"), HandleTodoCommand(rec.user_id, message_lower))}
        ELSE IF IsGeneralConversation(message_lower)
        THEN IF ~offline_mode
             THEN ProcessWithAIBegin(offline_mode, as("GeneralConversation"))
             ELSE {Return(as("GeneralConversation"), reply) :
                      reply \in HandleGeneralConversation(rec.message)}
        ELSE ProcessWithAIBegin(offline_mode, as("Other"))

\* the body of process_message after it has stored the user id: the request
\* records it can leave (returned, or waiting in _process_with_ai)
Route(offline_mode, rec) ==
    LET message_lower == Strip(Lower(rec.message))
        as(intent) == [rec EXCEPT !.intent = intent]
    IN  IF IsTodoCommand(message_lower)
        THEN {Return(as("TodoCommand"), HandleTodoCommand(rec.user_id, message_lower))}
        ELSE IF IsGeneralConversation(message_lower)
        THEN IF ~offline_mode
             THEN ProcessWithAIBegin(offline_mode, as("GeneralConversation"))
             ELSE {Return(as("GeneralConversation"), reply) :
                      reply \in HandleGeneralConversation(rec.message)}
        ELSE IF ~offline_mode
        THEN ProcessWithAIBegin(offline_mode, as("Other"))
        ELSE {Return(as("Other"), DefaultOfflineHelp)}

\* process_message, from its first line to its return or to the point where
\* _process_with_ai waits for the AI backend
ProcessMessage(r, user_id, message) ==
    /\ req[r].pc = "idle"
    /\ agent' = [agent EXCEPT !.current_user_id = user_id]
    /\ \E rec \in Route(agent.offline_mode,
                        [Idle EXCEPT !.user_id = user_id, !.message = message]) :
          req' = [req EXCEPT ![r] = rec]

\* ProcessWithAIEnd forwarding the failure-mapped apology of
\* _call_openrouter_api in its except clause
ProcessWithAIEndForwardApology(r, outcome) ==
    /\ req[r].pc = "ai_call"
    /\ LET rec == [req[r] EXCEPT !.ai = outcome.kind, !.status = outcome.status]
       IN  req' = [req EXCEPT ![r] =
              Return(rec, CallOpenrouterApi(outcome).choices[1].message.content)]
    /\ UNCHANGED agent

\* _process_with_ai from the answer of the AI backend to its return: the
\* content of the first choice, or the except clause's offline fallback
ProcessWithAIEnd(r, outcome) ==
    /\ req[r].pc = "ai_call"
    /\ LET rec == [req[r] EXCEPT !.ai = outcome.kind, !.status = outcome.status]
       IN  req' = [req EXCEPT ![r] =
              IF outcome.kind = "ok"
              THEN Return(rec, outcome.content)
              ELSE IF ExceptException(outcome.kind)
              THEN Return(rec, HandleOfflineFallback(rec.message))
              ELSE [rec EXCEPT !.pc = "raised"]]
    /\ UNCHANGED agent

\* the caller takes the outcome of process_message; the slot is free again
Finish(r) ==
    /\ req[r].pc \in {"returned", "raised"}
    /\ req' = [req EXCEPT ![r] = Idle]
    /\ UNCHANGED agent

(***************************************************************************)
(* Inputs: the messages the callers send.                                  *)
(***************************************************************************)
RECURSIVE Join(_)
\* " ".join(words)
Join(words) ==
    IF Len(words) = 0 THEN ""
    ELSE IF Len(words) = 1 THEN words[1]
    ELSE words[1] \o " " \o Join(Tail(words))

\* every message made of at most MaxWords words of a vocabulary, joined by
\* single spaces (the empty word gives the empty message, leading, trailing
\* and doubled spaces, and whitespace-only messages)
MessagesOver(vocabulary) ==
    {Join(ws) : ws \in UNION {[1..n -> vocabulary] : n \in 0..MaxWords}}

\* words that decide the route: the empty word, a todo keyword, an
\* interrogative, a small-talk keyword, a word holding no keyword (upper
\* case, non-ASCII)
RouteWords == {"", "Add", "who", "hi", "Été"}

\* words that decide the todo sub-intent: a verb of each group and a noun
TodoWords == {"New", "get", "done", "delete", "Todos"}

\* a few messages, one per route, for concurrent callers
FewMessages == {"Create a todo", "\t", "please buy oat milk"}

(***************************************************************************)
(* Specifications.                                                         *)
(***************************************************************************)
\* one step of the callers in slots R, sending messages of M
Step(R, M) ==
    \/ \E r \in R, message \in M : ProcessMessage(r, UserOf(r), message)
    \/ \E r \in R, outcome \in Outcomes : ProcessWithAIEnd(r, outcome)
    \/ \E r \in R : Finish(r)

\* one caller at a time, every message over RouteWords
RouteMessages == MessagesOver(RouteWords)
Next == Step({1}, RouteMessages)
Spec == Init /\ [][Next]_vars

\* one caller at a time, every message over TodoWords
TodoMessages == MessagesOver(TodoWords)
NextTodo == Step({1}, TodoMessages)
SpecTodo == Init /\ [][NextTodo]_vars

\* NumReq callers on independent threads, sharing the one agent
NextConc == Step(Reqs, FewMessages)
SpecConc == Init /\ [][NextConc]_vars

(***************************************************************************)
(* Properties.                                                             *)
(***************************************************************************)
\* the message of slot r as process_message normalizes it
Normalized(r) == Strip(Lower(req[r].message))

\* the call in slot r has ended
Ended(r) == req[r].pc \in {"returned", "raised"}

\* the AI backend call of slot r has failed
AIFailed(r) == req[r].ai \in FailureKinds

\* C1: every process_message call that ends, ends by returning a non-empty
\* string, whatever the message, the mode and the outcome of the AI backend
\* call.
RouteReturnsNonEmptyString ==
    \A r \in Reqs : Ended(r) => req[r].pc = "returned" /\ IsNonEmptyStr(req[r].result)

\* C2: no failure of the AI backend call (timeout, network, HTTP status,
\* other exception, malformed response) leaves process_message as an
\* exception: the call ends by returning a string.
NoFailureEscapesRoute ==
    \A r \in Reqs :
        /\ req[r].pc # "raised"
        /\ AIFailed(r) => req[r].pc = "returned" /\ IsNonEmptyStr(req[r].result)

\* C2 witness: a call whose backend answer was malformed has returned.
MalformedAnswerReturned ==
    \E r \in Reqs : req[r].ai = "malformed" /\ req[r].pc = "returned"

\* C3: a call whose normalized message holds a todo keyword makes no AI
\* backend call, in online as in offline mode, and returns one of the five
\* fixed acknowledgements.
TodoCommandNeverCallsAI ==
    \A r \in Reqs :
        (req[r].pc # "idle" /\ AnyIn(todo_keywords, Normalized(r))) =>
            /\ req[r].calls = 0
            /\ req[r].ai = "none"
            /\ req[r].pc = "returned"
            /\ req[r].result \in {CreateAck, ListAck, CompleteAck, DeleteAck, UnrecognizedAck}

\* C3 witness: online, a todo command of three tokens or fewer has returned
\* its acknowledgement without a backend call.
OnlineTodoCommandReturned ==
    \E r \in Reqs :
        /\ ~agent.offline_mode
        /\ req[r].intent = "TodoCommand"
        /\ SplitLen(Normalized(r)) <= ShortMessageTokens
        /\ req[r].result = CompleteAck
        /\ req[r].calls = 0

\* C4: an agent constructed without a credential (no key, or an empty one)
\* never calls the AI backend, whatever calls are made to process_message.
OfflineNeverCallsBackend ==
    ~Bool(agent.openrouter_api_key) =>
        \A r \in Reqs : req[r].calls = 0 /\ req[r].pc # "ai_call" /\ req[r].ai = "none"

\* C4 witness: with an empty key, a message that is neither a todo command
\* nor general conversation has been answered.
EmptyKeyOtherAnswered ==
    \E r \in Reqs :
        /\ agent.openrouter_api_key = ""
        /\ req[r].intent = "Other"
        /\ req[r].pc = "returned"

\* the apology _call_openrouter_api maps the failure of slot r to
MappedApology(r) ==
    CallOpenrouterApi([kind |-> req[r].ai, content |-> None,
                       status |-> req[r].status]).choices[1].message.content

\* C5 as stated: after a failed AI backend call, process_message returns the
\* failure-mapped apology of that failure kind.
FailureReturnsMappedApology ==
    \A r \in Reqs : (AIFailed(r) /\ Ended(r)) => req[r].result = MappedApology(r)

\* C5 amended: after a failed AI backend call, process_message returns what
\* _handle_offline_fallback gives for the message, whatever the failure
\* kind, and never one of the failure-mapped apologies.
FailureReturnsOfflineFallback ==
    \A r \in Reqs :
        (AIFailed(r) /\ Ended(r)) =>
            /\ req[r].result = HandleOfflineFallback(req[r].message)
            /\ req[r].result \notin
                  {TimeoutApology, NetworkApology, UnexpectedApology}
                     \cup {HTTPApology(c) : c \in StatusCodes}

\* C5 witness: a call whose backend answered HTTP 500 has returned.
HTTPFailureReturned ==
    \E r \in Reqs : req[r].ai = "http" /\ req[r].status = 500 /\ req[r].pc = "returned"

\* C6: process_message writes no field of the agent: each holds the value
\* the constructor gave it.
NoSharedStateWritten == agent = NewAgent(agent.openrouter_api_key)

\* the intent the classification rules give a normalized message n: todo
\* keyword first, then small talk, anchored interrogative or short message
IntentOf(n) ==
    IF AnyIn(todo_keywords, n) THEN "TodoCommand"
    ELSE IF \/ AnyIn(general_keywords, n)
            \/ \E i \in 1..Len(question_words) :
                  StartsWith(n, question_words[i]) \/ In(" " \o question_words[i], n)
            \/ SplitLen(n) <= ShortMessageTokens
    THEN "GeneralConversation"
    ELSE "Other"

\* C7: the branch process_message takes is the intent of the first matching
\* rule: exactly one of TodoCommand, GeneralConversation, Other.
ClassificationFirstMatchWins ==
    \A r \in Reqs : req[r].pc # "idle" => req[r].intent = IntentOf(Normalized(r))

\* C7 witness: a message of three tokens that starts with an interrogative,
\* holds a small-talk keyword and a todo keyword, routed as TodoCommand.
TodoKeywordBeatsSmallTalk ==
    \E r \in Reqs :
        /\ req[r].intent = "TodoCommand"
        /\ StartsWith(Normalized(r), "who ")
        /\ AnyIn(general_keywords, Normalized(r))
        /\ SplitLen(Normalized(r)) = ShortMessageTokens

\* C8: the acknowledgement of a todo command is that of the first group, in
\* the order Create, List, Complete, Delete, whose verb occurs together with
\* a todo/task noun; without such a pair it is the Unrecognized one; the
\* five acknowledgements differ.
SubIntentFirstMatchWins ==
    /\ Cardinality({CreateAck, ListAck, CompleteAck, DeleteAck, UnrecognizedAck}) = 5
    /\ \A r \in Reqs :
          req[r].intent = "TodoCommand" =>
              LET n == Normalized(r)
                  noun == In("todo", n) \/ In("task", n)
                  create == AnyIn(<<"create", "add", "new", "make">>, n)
                  list == AnyIn(<<"show", "list", "view", "get">>, n)
                  complete == AnyIn(<<"complete", "finish", "done", "mark">>, n)
                  delete == AnyIn(<<"delete", "remove">>, n)
              IN  /\ (noun /\ create) => req[r].result = CreateAck
                  /\ (noun /\ list /\ ~create) => req[r].result = ListAck
                  /\ (noun /\ complete /\ ~create /\ ~list) => req[r].result = CompleteAck
                  /\ (noun /\ delete /\ ~create /\ ~list /\ ~complete) =>
                        req[r].result = DeleteAck
                  /\ (~noun \/ ~(create \/ list \/ complete \/ delete)) =>
                        req[r].result = UnrecognizedAck

\* C8 witness: a message with a noun, a Complete verb and a Delete verb has
\* been acknowledged as Complete.
CompleteBeatsDelete ==
    \E r \in Reqs :
        /\ req[r].intent = "TodoCommand"
        /\ In("todo", Normalized(r))
        /\ In("done", Normalized(r))
        /\ In("delete", Normalized(r))
        /\ req[r].result = CompleteAck

\* C9 as stated: offline, a message classified Other gets the response of
\* the offline fallback (keyed by keyword, else its generic offline notice).
OtherOfflineReturnsFallback ==
    \A r \in Reqs :
        (agent.offline_mode /\ req[r].intent = "Other" /\ Ended(r)) =>
            req[r].result = HandleOfflineFallback(req[r].message)

\* C9 amended: offline, a message classified Other gets the fixed help text
\* of process_message's last line, with no keyword re-check and no backend
\* call; online it is handed to the AI backend, once.
OtherOfflineReturnsDefaultHelp ==
    \A r \in Reqs :
        (req[r].pc # "idle" /\ IntentOf(Normalized(r)) = "Other") =>
            IF agent.offline_mode
            THEN req[r].pc = "returned" /\ req[r].result = DefaultOfflineHelp
                    /\ req[r].calls = 0
            ELSE req[r].calls = 1 /\ (req[r].pc = "ai_call" \/ req[r].ai # "none")

\* C9 witness: offline, a message classified Other has been answered.
OtherOfflineAnswered ==
    \E r \in Reqs :
        agent.offline_mode /\ req[r].intent = "Other" /\ req[r].pc = "returned"

\* C10 as stated: an empty or whitespace-only message takes the Other branch.
EmptyMessageIsOther ==
    \A r \in Reqs :
        (req[r].pc # "idle" /\ Strip(req[r].message) = "") => req[r].intent = "Other"

\* C10 amended: an empty or whitespace-only message takes the
\* GeneralConversation branch (no token is at most three tokens): online it
\* is handed to the AI backend, offline it gets a member of the pool of
\* filler replies; never the TodoCommand or the Other branch.
EmptyMessageIsGeneralConversation ==
    \A r \in Reqs :
        (req[r].pc # "idle" /\ Strip(req[r].message) = "") =>
            /\ req[r].intent = "GeneralConversation"
            /\ IF agent.offline_mode
               THEN req[r].pc = "returned" /\ req[r].result \in responses
                       /\ req[r].calls = 0
               ELSE req[r].calls = 1

\* C10 witness: offline, a message of spaces has got a filler reply.
WhitespaceMessageGotFiller ==
    \E r \in Reqs :
        /\ agent.offline_mode
        /\ req[r].message # ""
        /\ Strip(req[r].message) = ""
        /\ req[r].result \in responses

\* C11: a call whose AI backend call has failed carries a message without
\* any todo keyword (todo commands return before the backend is called), so
\* none of the four keyword branches of _handle_offline_fallback applies and
\* the call returns the generic offline notice, whatever the failure kind.
FailedCallReturnsGenericNotice ==
    \A r \in Reqs :
        AIFailed(r) =>
            /\ ~AnyIn(todo_keywords, Normalized(r))
            /\ req[r].pc = "returned"
            /\ req[r].result = OfflineGeneric
            /\ req[r].result \notin {OfflineCreate, OfflineShow, OfflineUpdate, OfflineDelete}

\* C11 witness: a message of more than three tokens, classified Other, whose
\* backend call ended in a network error, has got the generic offline notice.
NetworkFailureGotGenericNotice ==
    \E r \in Reqs :
        /\ req[r].ai = "network"
        /\ req[r].intent = "Other"
        /\ SplitLen(Normalized(r)) > ShortMessageTokens
        /\ req[r].result = OfflineGeneric

====
